---- MODULE Spec2Model ----
(***************************************************************************)
(* Model of the document ingestion code of backend/api/routers/upload.py:  *)
(* the text helpers dehyphenate_text, reflow_paragraphs and chunk_text,    *)
(* the image extraction extract_images_with_metadata, and the two branches *)
(* of the upload_callback handler; and of the figure extraction of         *)
(* backend/api/routers/parse_marker.py.                                    *)
(*                                                                         *)
(* A text is a sequence of one-character strings.                          *)
(***************************************************************************)
EXTENDS Integers, Sequences, FiniteSets, TLC

VARIABLES
    \* ---- text pipeline (upload.py 377-381 / 251-254) ----
    raw,            \* the text returned by extract_text
    text_content,   \* the handler's text_content variable
    text_chunks,    \* the handler's text_chunks variable
    chunk_size,     \* the chunk_size argument of chunk_text (0: not called yet)
    pc,             \* position in the pipeline
    passes,         \* how many times the text went through normalization
    first_pass,     \* the normalized text of the first pass
    \* ---- ZIP branch of upload_callback (upload.py 129-354) ----
    files,          \* the files os.walk yields, in order: their kinds
    zpc,            \* position of the handler
    file_i,         \* index in files of the file being processed
    fstep,          \* position inside the try block of the file
    extracted_docs, \* the handler's extracted_docs list
    inserted_at,    \* index in extracted_docs of the file's inserted record
    zip_images,     \* how many images the file's images_meta holds
    zip_img_i,      \* how many of them were uploaded
    tmp_zip,        \* whether the file at tmp_zip_path exists
    temp_extract_dir, \* whether the directory temp_extract_dir exists
    collection_id,  \* collection.get("id"): "id" or "None"
    failed_files,   \* the files one of whose steps raised, with the step
    http_error,     \* the detail of the HTTPException raised, or "none"
    \* ---- single-file branch of upload_callback (upload.py 357-498), one
    \* ---- entry per request being handled; tmpdir is shared by all
    hpc,            \* position of the handler
    req_name,       \* Path(data.filename): the file name of the request
    doc,            \* the raw images of the request's document, in file order
    tmpdir,         \* the files of tempfile.gettempdir(): <<name, content>>
    text_src,       \* whose bytes extract_text read from tmp_file_path
    image_src,      \* whose bytes fitz.open read from tmp_file_path
    ext_i,          \* extract_images_with_metadata: raw images handled
    extracted_images_meta, \* the list extract_images_with_metadata returns
    mv_i,           \* entries of extracted_images_meta handled by the move loop
    images_meta,    \* the handler's images_meta list
    local_dir,      \* the files moved into local_doc_dir: <<name, content>>
    up_i,           \* entries of images_meta handled by the upload loop
    uploaded_images_meta,  \* the handler's uploaded_images_meta list
    raised_by,      \* the step whose exception ended the handler, or "none"
    \* ---- parse_and_extract (parse_marker.py 89-146), one entry per request
    blocks,         \* the blocks of marker_json, the same for both requests
    mpc,            \* position of the request
    block_i,        \* extract_and_save_figures: blocks handled
    saved           \* the list extract_and_save_figures builds

text_vars == <<raw, text_content, text_chunks, chunk_size, pc, passes, first_pass>>

zip_vars == <<files, zpc, file_i, fstep, extracted_docs, inserted_at, zip_images,
              zip_img_i, tmp_zip, temp_extract_dir, collection_id, failed_files,
              http_error>>

single_vars == <<hpc, req_name, doc, tmpdir, text_src, image_src, ext_i,
                 extracted_images_meta, mv_i, images_meta, local_dir, up_i,
                 uploaded_images_meta, raised_by>>

figure_vars == <<blocks, mpc, block_i, saved>>

vars == <<text_vars, zip_vars, single_vars, figure_vars>>

\* the requests the single-file branch may handle at once
Procs == {1, 2}

\* no single-file request is being handled
SingleIdle ==
    /\ hpc = [p \in Procs |-> "idle"]
    /\ req_name = [p \in Procs |-> "none"]
    /\ doc = [p \in Procs |-> <<>>]
    /\ tmpdir = {}
    /\ text_src = [p \in Procs |-> 0]
    /\ image_src = [p \in Procs |-> 0]
    /\ ext_i = [p \in Procs |-> 0]
    /\ extracted_images_meta = [p \in Procs |-> <<>>]
    /\ mv_i = [p \in Procs |-> 0]
    /\ images_meta = [p \in Procs |-> <<>>]
    /\ local_dir = [p \in Procs |-> {}]
    /\ up_i = [p \in Procs |-> 0]
    /\ uploaded_images_meta = [p \in Procs |-> <<>>]
    /\ raised_by = [p \in Procs |-> "none"]

\* no parse-and-extract request is being handled
FiguresIdle ==
    /\ blocks = <<>>
    /\ mpc = [p \in Procs |-> "idle"]
    /\ block_i = [p \in Procs |-> 0]
    /\ saved = [p \in Procs |-> <<>>]

\* no ZIP request is being handled
ZipIdle ==
    /\ files = <<>>
    /\ zpc = "idle"
    /\ file_i = 0
    /\ fstep = "none"
    /\ extracted_docs = <<>>
    /\ inserted_at = 0
    /\ zip_images = 0
    /\ zip_img_i = 0
    /\ tmp_zip = FALSE
    /\ temp_extract_dir = FALSE
    /\ collection_id = "None"
    /\ failed_files = {}
    /\ http_error = "none"

\* no text is being parsed
TextIdle ==
    /\ raw = <<>>
    /\ text_content = <<>>
    /\ text_chunks = <<>>
    /\ chunk_size = 0
    /\ pc = "idle"
    /\ passes = 0
    /\ first_pass = <<>>

----------------------------------------------------------------------------
(* Bounds of the model                                                     *)

MaxLen == 5
MaxChunkSize == 3
MaxPasses == 2
MaxFiles == 2
MaxZipImages == 2
MaxPages == 2
MaxImages == 3
MaxBlocks == 2

(* Program constants                                                       *)

DefaultChunkSize == 1000

----------------------------------------------------------------------------
(* Character classes of the regular expressions and string methods         *)

Lower == {"a", "b", "c", "d", "e", "f", "g", "h", "i", "j", "k", "l", "m",
          "n", "o", "p", "q", "r", "s", "t", "u", "v", "w", "x", "y", "z"}

Upper == {"A", "B", "C", "D", "E", "F", "G", "H", "I", "J", "K", "L", "M",
          "N", "O", "P", "Q", "R", "S", "T", "U", "V", "W", "X", "Y", "Z"}

Digit == {"0", "1", "2", "3", "4", "5", "6", "7", "8", "9"}

\* [a-z0-9]
LowerOrDigit == Lower \cup Digit

\* \w
WordChar == Lower \cup Upper \cup Digit \cup {"_"}

\* the characters str.strip() removes (those a TLA+ string can hold)
Whitespace == {" ", "\t", "\n", "\r", "\f"}

\* the characters str.splitlines() breaks at (those a TLA+ string can hold)
LineBoundary == {"\n", "\r", "\f"}

----------------------------------------------------------------------------
(* Sequence helpers                                                        *)

Drop(s, k) == SubSeq(s, k + 1, Len(s))

Min(S) == CHOOSE x \in S : \A y \in S : x <= y

Max(S) == CHOOSE x \in S : \A y \in S : x >= y

----------------------------------------------------------------------------
(* dehyphenate_text                                                        *)

\* the first substitution left out
RemoveLineEndHyphensSkipped(text) == text

\* re.sub(r"-\n([a-z0-9])", r"\1", text): leftmost matches, left to right,
\* the scan resuming after each match
RECURSIVE RemoveLineEndHyphens(_)
RemoveLineEndHyphens(text) ==
    IF text = <<>> THEN <<>>
    ELSE IF /\ Len(text) >= 3
            /\ text[1] = "-"
            /\ text[2] = "\n"
            /\ text[3] \in LowerOrDigit
         THEN <<text[3]>> \o RemoveLineEndHyphens(Drop(text, 3))
         ELSE <<text[1]>> \o RemoveLineEndHyphens(Tail(text))

\* re.sub(r"([a-z0-9])\n([a-z])", r"\1 \2", text)
RECURSIVE JoinBrokenWords(_)
JoinBrokenWords(text) ==
    IF text = <<>> THEN <<>>
    ELSE IF /\ Len(text) >= 3
            /\ text[1] \in LowerOrDigit
            /\ text[2] = "\n"
            /\ text[3] \in Lower
         THEN <<text[1], " ", text[3]>> \o JoinBrokenWords(Drop(text, 3))
         ELSE <<text[1]>> \o JoinBrokenWords(Tail(text))

dehyphenate_text(text) == JoinBrokenWords(RemoveLineEndHyphens(text))

----------------------------------------------------------------------------
(* reflow_paragraphs                                                       *)

\* text.replace("\r\n", "\n")
RECURSIVE UnifyCRLF(_)
UnifyCRLF(text) ==
    IF text = <<>> THEN <<>>
    ELSE IF Len(text) >= 2 /\ text[1] = "\r" /\ text[2] = "\n"
         THEN <<"\n">> \o UnifyCRLF(Drop(text, 2))
         ELSE <<text[1]>> \o UnifyCRLF(Tail(text))

\* the length of the run of newlines text starts with
NewlineRun(text) ==
    IF \A i \in 1..Len(text) : text[i] = "\n"
    THEN Len(text)
    ELSE Min({i \in 1..Len(text) : text[i] # "\n"}) - 1

\* re.sub(r'\n{2,}', '\n\n', text): the quantifier is greedy, a match is a
\* whole run of two or more newlines
RECURSIVE CollapseNewlines(_)
CollapseNewlines(text) ==
    IF text = <<>> THEN <<>>
    ELSE IF NewlineRun(text) >= 2
         THEN <<"\n", "\n">> \o CollapseNewlines(Drop(text, NewlineRun(text)))
         ELSE <<text[1]>> \o CollapseNewlines(Tail(text))

\* text.split("\n\n"): the pieces between the separators, empty pieces kept
RECURSIVE SplitParagraphs(_)
SplitParagraphs(text) ==
    LET seps == {i \in 1..(Len(text) - 1) : text[i] = "\n" /\ text[i + 1] = "\n"}
    IN  IF seps = {} THEN <<text>>
        ELSE <<SubSeq(text, 1, Min(seps) - 1)>>
                 \o SplitParagraphs(Drop(text, Min(seps) + 1))

\* str.splitlines(): "\r\n" is one boundary, no empty last line
RECURSIVE splitlines(_)
splitlines(para) ==
    LET ends == {i \in 1..Len(para) : para[i] \in LineBoundary}
    IN  IF para = <<>> THEN <<>>
        ELSE IF ends = {} THEN <<para>>
        ELSE LET i == Min(ends)
                 skip == IF para[i] = "\r" /\ i < Len(para) /\ para[i + 1] = "\n"
                         THEN 2 ELSE 1
             IN  <<SubSeq(para, 1, i - 1)>> \o splitlines(Drop(para, i - 1 + skip))

\* str.strip()
strip(s) ==
    LET keep == {i \in 1..Len(s) : s[i] \notin Whitespace}
    IN  IF keep = {} THEN <<>> ELSE SubSeq(s, Min(keep), Max(keep))

\* sep.join(parts)
RECURSIVE join(_, _)
join(sep, parts) ==
    IF parts = <<>> THEN <<>>
    ELSE IF Len(parts) = 1 THEN parts[1]
    ELSE parts[1] \o sep \o join(sep, Tail(parts))

\* " ".join(line.strip() for line in para.splitlines() if line.strip()), stripped
ReflowOne(para) ==
    LET lines    == splitlines(para)
        stripped == [k \in 1..Len(lines) |-> strip(lines[k])]
        kept     == SelectSeq(stripped, LAMBDA l : l # <<>>)
    IN  strip(join(<<" ">>, kept))

\* the loop of lines 112-117
ReflowParagraphs(text) ==
    LET paras == SplitParagraphs(text)
    IN  join(<<"\n", "\n">>, [k \in 1..Len(paras) |-> ReflowOne(paras[k])])

reflow_paragraphs(text) == ReflowParagraphs(CollapseNewlines(UnifyCRLF(text)))

----------------------------------------------------------------------------
(* chunk_text                                                              *)

\* slices one character too long
chunk_text_long_slice(text, size) ==
    [k \in 1..((Len(text) + size - 1) \div size) |->
        SubSeq(text, (k - 1) * size + 1,
               IF k * size + 1 < Len(text) THEN k * size + 1 ELSE Len(text))]

\* the last, shorter slice forgotten
chunk_text_drops_tail(text, size) ==
    [k \in 1..(Len(text) \div size) |->
        SubSeq(text, (k - 1) * size + 1, k * size)]

\* a text without white space returned whole
chunk_text_atomic_whole(text, size) ==
    IF text # <<>> /\ \A i \in 1..Len(text) : text[i] \notin Whitespace
    THEN <<text>>
    ELSE [k \in 1..((Len(text) + size - 1) \div size) |->
            SubSeq(text, (k - 1) * size + 1,
                   IF k * size < Len(text) THEN k * size ELSE Len(text))]

\* cut at the first paragraph break, then by size
chunk_text_paragraph_first(text, size) ==
    LET fixed(t) == [k \in 1..((Len(t) + size - 1) \div size) |->
                        SubSeq(t, (k - 1) * size + 1,
                               IF k * size < Len(t) THEN k * size ELSE Len(t))]
        seps == {i \in 1..(Len(text) - 1) : text[i] = "\n" /\ text[i + 1] = "\n"}
    IN  IF seps = {} THEN fixed(text)
        ELSE fixed(SubSeq(text, 1, Min(seps) - 1)) \o fixed(Drop(text, Min(seps) - 1))

\* [text[i:i+chunk_size] for i in range(0, len(text), chunk_size)]
chunk_text(text, size) ==
    [k \in 1..((Len(text) + size - 1) \div size) |->
        SubSeq(text, (k - 1) * size + 1,
               IF k * size < Len(text) THEN k * size ELSE Len(text))]

----------------------------------------------------------------------------
(* Input texts                                                             *)

Alphabet == {"a", "A", "-", " ", "\n", "\r"}

BoundedTexts == UNION {[1..n -> Alphabet] : n \in 0..MaxLen}

\* "multi-\nple para-\ngraphs here.\n\n\nNext one."
HyphenatedText ==
    <<"m", "u", "l", "t", "i", "-", "\n", "p", "l", "e", " ", "p", "a",
      "r", "a", "-", "\n", "g", "r", "a", "p", "h", "s", " ", "h", "e",
      "r", "e", ".", "\n", "\n", "\n", "N", "e", "x", "t", " ", "o", "n",
      "e", ".">>

\* "multiple paragraphs here.\n\nNext one."
HyphenatedTextJoined ==
    <<"m", "u", "l", "t", "i", "p", "l", "e", " ", "p", "a", "r", "a", "g",
      "r", "a", "p", "h", "s", " ", "h", "e", "r", "e", ".", "\n", "\n",
      "N", "e", "x", "t", " ", "o", "n", "e", ".">>

\* "multi-\r\nple"
CrlfWrappedWord ==
    <<"m", "u", "l", "t", "i", "-", "\r", "\n", "p", "l", "e">>

\* "multiple"
WrappedWordJoined ==
    <<"m", "u", "l", "t", "i", "p", "l", "e">>

\* "supercalifragilistic"
LongWord ==
    <<"s", "u", "p", "e", "r", "c", "a", "l", "i", "f", "r", "a", "g", "i",
      "l", "i", "s", "t", "i", "c">>

\* "a\n\n \n\nb"
BlankParagraphText ==
    <<"a", "\n", "\n", " ", "\n", "\n", "b">>

\* 2500 characters, one paragraph break at offset 1200; the text is
\* normalized: dehyphenate_text and reflow_paragraphs leave it as it is
TwoParagraphText ==
    [i \in 1..2500 |-> IF i \in {1201, 1202} THEN "\n" ELSE "a"]

NamedTexts == {HyphenatedText, CrlfWrappedWord, LongWord, BlankParagraphText}

\* the texts extract_text may return
Inputs == BoundedTexts \cup NamedTexts

\* the texts chunk_text may be given
ChunkInputs == BoundedTexts \cup {LongWord, TwoParagraphText}

ChunkSizes == (1..MaxChunkSize) \cup {10, DefaultChunkSize}

----------------------------------------------------------------------------
(* The text pipeline of upload_callback: extract_text, dehyphenate_text,   *)
(* reflow_paragraphs, chunk_text (lines 377-381 and 251-254)               *)

InitText ==
    /\ raw \in Inputs
    /\ text_content = raw
    /\ text_chunks = <<>>
    /\ chunk_size = 0
    /\ pc = "extracted"
    /\ passes = 1
    /\ first_pass = <<>>
    /\ ZipIdle
    /\ FiguresIdle
    /\ SingleIdle

\* text_content = dehyphenate_text(text_content)
Dehyphenate ==
    /\ pc = "extracted"
    /\ text_content' = dehyphenate_text(text_content)
    /\ pc' = "dehyphenated"
    /\ UNCHANGED <<raw, text_chunks, chunk_size, passes, first_pass>>
    /\ UNCHANGED <<zip_vars, single_vars, figure_vars>>

\* text_content = reflow_paragraphs(text_content)
Reflow ==
    /\ pc = "dehyphenated"
    /\ text_content' = reflow_paragraphs(text_content)
    /\ pc' = "reflowed"
    /\ first_pass' = IF passes = 1 THEN text_content' ELSE first_pass
    /\ UNCHANGED <<raw, text_chunks, chunk_size, passes>>
    /\ UNCHANGED <<zip_vars, single_vars, figure_vars>>

\* text_chunks = chunk_text(text_content)
Chunk ==
    /\ pc = "reflowed"
    /\ \E size \in ChunkSizes :
          /\ chunk_size' = size
          /\ text_chunks' = chunk_text(text_content, size)
    /\ pc' = "chunked"
    /\ UNCHANGED <<raw, text_content, passes, first_pass>>
    /\ UNCHANGED <<zip_vars, single_vars, figure_vars>>

\* the normalized text is the text of a later run
Renormalize ==
    /\ pc = "reflowed"
    /\ passes < MaxPasses
    /\ raw' = text_content
    /\ pc' = "extracted"
    /\ passes' = passes + 1
    /\ UNCHANGED <<text_content, text_chunks, chunk_size, first_pass>>
    /\ UNCHANGED <<zip_vars, single_vars, figure_vars>>

NextText ==
    \/ Dehyphenate
    \/ Reflow
    \/ Chunk
    \/ Renormalize

SpecText == InitText /\ [][NextText]_vars

\* chunk_text alone, on any text
InitChunk ==
    /\ raw \in ChunkInputs
    /\ text_content = raw
    /\ text_chunks = <<>>
    /\ chunk_size = 0
    /\ pc = "reflowed"
    /\ passes = 1
    /\ first_pass = raw
    /\ ZipIdle
    /\ FiguresIdle
    /\ SingleIdle

SpecChunk == InitChunk /\ [][Chunk]_vars

----------------------------------------------------------------------------
(* The ZIP branch of upload_callback (lines 129-354)                       *)

FileKinds == {"pdf", "other", "zip"}

\* the walks of an extracted archive: the kinds of its files, in walk order
Archives == UNION {[1..n -> FileKinds] : n \in 0..MaxFiles}

InitZip ==
    /\ files \in Archives
    /\ zpc = "download"
    /\ file_i = 0
    /\ fstep = "none"
    /\ extracted_docs = <<>>
    /\ inserted_at = 0
    /\ zip_images = 0
    /\ zip_img_i = 0
    /\ tmp_zip = FALSE
    /\ temp_extract_dir = FALSE
    /\ collection_id = "None"
    /\ failed_files = {}
    /\ http_error = "none"
    /\ TextIdle
    /\ SingleIdle
    /\ FiguresIdle

\* raise HTTPException(status_code=500, detail=...) before the walk
RaiseHttp(detail) ==
    /\ zpc' = "raised"
    /\ http_error' = detail

\* lines 135-143: download the uploaded ZIP
DownloadZip ==
    /\ zpc = "download"
    /\ \/ zpc' = "reupload" /\ UNCHANGED http_error
       \/ RaiseHttp("Failed to download ZIP")
    /\ UNCHANGED <<files, file_i, fstep, extracted_docs, inserted_at, zip_images,
                   zip_img_i, tmp_zip, temp_extract_dir, collection_id,
                   failed_files>>
    /\ UNCHANGED <<text_vars, single_vars, figure_vars>>

\* lines 146-156: upload it again under zipUploaded/
ReuploadZip ==
    /\ zpc = "reupload"
    /\ \/ zpc' = "save_tmp" /\ UNCHANGED http_error
       \/ RaiseHttp("Failed to save ZIP into zipUploaded/")
    /\ UNCHANGED <<files, file_i, fstep, extracted_docs, inserted_at, zip_images,
                   zip_img_i, tmp_zip, temp_extract_dir, collection_id,
                   failed_files>>
    /\ UNCHANGED <<text_vars, single_vars, figure_vars>>

\* lines 159-166: mkstemp creates the file, then the bytes are written; the
\* failure is of mkstemp (no file) or of the write (the file stays)
SaveTempZip ==
    /\ zpc = "save_tmp"
    /\ \/ /\ tmp_zip' = TRUE
          /\ zpc' = "insert_collection"
          /\ UNCHANGED http_error
       \/ /\ tmp_zip' \in BOOLEAN
          /\ RaiseHttp("Failed to write temp ZIP")
    /\ UNCHANGED <<files, file_i, fstep, extracted_docs, inserted_at, zip_images,
                   zip_img_i, temp_extract_dir, collection_id, failed_files>>
    /\ UNCHANGED <<text_vars, single_vars, figure_vars>>

\* lines 169-180: insert the collection row; a failure is kept in collection
InsertCollection ==
    /\ zpc = "insert_collection"
    /\ collection_id' \in {"id", "None"}
    /\ zpc' = "mkdtemp"
    /\ UNCHANGED <<files, file_i, fstep, extracted_docs, inserted_at, zip_images,
                   zip_img_i, tmp_zip, temp_extract_dir, failed_files, http_error>>
    /\ UNCHANGED <<text_vars, single_vars, figure_vars>>

\* line 184: tempfile.mkdtemp, outside every try block
MakeTempDir ==
    /\ zpc = "mkdtemp"
    /\ \/ /\ temp_extract_dir' = TRUE
          /\ zpc' = "extractall"
          /\ UNCHANGED http_error
       \/ /\ UNCHANGED temp_extract_dir
          /\ RaiseHttp("Internal Server Error")
    /\ UNCHANGED <<files, file_i, fstep, extracted_docs, inserted_at, zip_images,
                   zip_img_i, tmp_zip, collection_id, failed_files>>
    /\ UNCHANGED <<text_vars, single_vars, figure_vars>>

\* lines 186-193: extract the archive; on failure remove both and raise
ExtractAll ==
    /\ zpc = "extractall"
    /\ \/ /\ zpc' = "walk"
          /\ file_i' = 1
          /\ UNCHANGED <<tmp_zip, temp_extract_dir, http_error>>
       \/ /\ temp_extract_dir' = FALSE
          /\ tmp_zip' = FALSE
          /\ RaiseHttp("Failed to extract ZIP")
          /\ UNCHANGED file_i
    /\ UNCHANGED <<files, fstep, extracted_docs, inserted_at, zip_images,
                   zip_img_i, collection_id, failed_files>>
    /\ UNCHANGED <<text_vars, single_vars, figure_vars>>

\* lines 200-213: the next file of the walk; nested zips are skipped
WalkNext ==
    /\ zpc = "walk"
    /\ fstep = "none"
    /\ file_i <= Len(files)
    /\ IF files[file_i] = "zip"
       THEN /\ file_i' = file_i + 1
            /\ UNCHANGED fstep
       ELSE /\ fstep' = "read"
            /\ UNCHANGED file_i
    /\ inserted_at' = 0
    /\ zip_images' = 0
    /\ zip_img_i' = 0
    /\ UNCHANGED <<files, zpc, extracted_docs, tmp_zip, temp_extract_dir,
                   collection_id, failed_files, http_error>>
    /\ UNCHANGED <<text_vars, single_vars, figure_vars>>

\* the handler re-raises: the walk is left through the finally block
FileFailedAborts(step) ==
    /\ failed_files' = failed_files \cup {<<file_i, step>>}
    /\ zpc' = "cleanup"
    /\ http_error' = "Internal Server Error"
    /\ fstep' = "none"
    /\ UNCHANGED <<extracted_docs, file_i>>

\* lines 336-342: except Exception: an error entry is appended and the loop
\* goes on with the next file
FileFailed(step) ==
    /\ failed_files' = failed_files \cup {<<file_i, step>>}
    /\ extracted_docs' = Append(extracted_docs,
                                [entry |-> "error", file |-> file_i])
    /\ fstep' = "none"
    /\ file_i' = file_i + 1
    /\ UNCHANGED <<zpc, http_error>>

\* a step of the try block that changes nothing but the position
PlainStep(step, next) ==
    /\ zpc = "walk"
    /\ fstep = step
    /\ \/ /\ fstep' = next
          /\ UNCHANGED <<extracted_docs, file_i, failed_files, zpc, http_error>>
       \/ FileFailed(step)
    /\ UNCHANGED <<files, inserted_at, zip_images, zip_img_i, tmp_zip,
                   temp_extract_dir, collection_id>>
    /\ UNCHANGED <<text_vars, single_vars, figure_vars>>

\* lines 216-221: read the file, guess its type
ReadFile == PlainStep("read", "upload")

\* lines 224-230: upload the extracted file
UploadFile == PlainStep("upload", "insert")

\* an insertion whose row is already marked as parsed
InsertDocumentParsed ==
    /\ zpc = "walk"
    /\ fstep = "insert"
    /\ \/ /\ extracted_docs' =
                Append(extracted_docs,
                       [entry |-> "document", file |-> file_i,
                        status |-> "parsed", parsed_json |-> TRUE,
                        images |-> TRUE])
          /\ inserted_at' = Len(extracted_docs) + 1
          /\ IF files[file_i] = "pdf"
             THEN fstep' = "extract_text" /\ UNCHANGED file_i
             ELSE fstep' = "none" /\ file_i' = file_i + 1
          /\ UNCHANGED <<failed_files, zpc, http_error>>
       \/ FileFailed("insert") /\ UNCHANGED inserted_at
    /\ UNCHANGED <<files, zip_images, zip_img_i, tmp_zip, temp_extract_dir,
                   collection_id>>
    /\ UNCHANGED <<text_vars, single_vars, figure_vars>>

\* lines 233-248: insert the document row, append it; parse PDFs only
InsertDocument ==
    /\ zpc = "walk"
    /\ fstep = "insert"
    /\ \/ /\ extracted_docs' =
                Append(extracted_docs,
                       [entry |-> "document", file |-> file_i,
                        status |-> "extracted", parsed_json |-> FALSE,
                        images |-> FALSE])
          /\ inserted_at' = Len(extracted_docs) + 1
          /\ IF files[file_i] = "pdf"
             THEN fstep' = "extract_text" /\ UNCHANGED file_i
             ELSE fstep' = "none" /\ file_i' = file_i + 1
          /\ UNCHANGED <<failed_files, zpc, http_error>>
       \/ FileFailed("insert") /\ UNCHANGED inserted_at
    /\ UNCHANGED <<files, zip_images, zip_img_i, tmp_zip, temp_extract_dir,
                   collection_id>>
    /\ UNCHANGED <<text_vars, single_vars, figure_vars>>

\* lines 251-253: extract_text, dehyphenate_text, reflow_paragraphs
ExtractTextOfFile == PlainStep("extract_text", "chunk")

\* line 254: chunk_text
ChunkTextOfFile == PlainStep("chunk", "extract_images")

\* line 257: extract_images_with_metadata
ExtractImagesOfFile ==
    /\ zpc = "walk"
    /\ fstep = "extract_images"
    /\ \/ /\ zip_images' \in 0..MaxZipImages
          /\ fstep' = "local"
          /\ UNCHANGED <<extracted_docs, file_i, failed_files, zpc, http_error>>
       \/ FileFailed("extract_images") /\ UNCHANGED zip_images
    /\ UNCHANGED <<files, inserted_at, zip_img_i, tmp_zip, temp_extract_dir,
                   collection_id>>
    /\ UNCHANGED <<text_vars, single_vars, figure_vars>>

\* lines 260-292: the local folder, parsed.json, the images moved, images.json
WriteLocal == PlainStep("local", "upload_parsed")

\* lines 295-302: upload parsed.json
UploadParsed == PlainStep("upload_parsed", "upload_images")

\* lines 306-323: upload one image of images_meta
UploadImage ==
    /\ zpc = "walk"
    /\ fstep = "upload_images"
    /\ zip_img_i < zip_images
    /\ \/ /\ zip_img_i' = zip_img_i + 1
          /\ UNCHANGED <<extracted_docs, file_i, fstep, failed_files, zpc,
                         http_error>>
       \/ FileFailed("upload_images") /\ UNCHANGED zip_img_i
    /\ UNCHANGED <<files, inserted_at, zip_images, tmp_zip, temp_extract_dir,
                   collection_id>>
    /\ UNCHANGED <<text_vars, single_vars, figure_vars>>

\* lines 326-331: the inserted record, which extracted_docs holds, is updated
MarkParsed ==
    /\ zpc = "walk"
    /\ fstep = "upload_images"
    /\ zip_img_i = zip_images
    /\ extracted_docs' =
          [extracted_docs EXCEPT ![inserted_at] =
              [@ EXCEPT !.status = "parsed", !.parsed_json = TRUE,
                        !.images = TRUE]]
    /\ fstep' = "none"
    /\ file_i' = file_i + 1
    /\ UNCHANGED <<files, zpc, inserted_at, zip_images, zip_img_i, tmp_zip,
                   temp_extract_dir, collection_id, failed_files, http_error>>
    /\ UNCHANGED <<text_vars, single_vars, figure_vars>>

\* the walk is over: the finally block is entered
WalkDone ==
    /\ zpc = "walk"
    /\ fstep = "none"
    /\ file_i > Len(files)
    /\ zpc' = "cleanup"
    /\ UNCHANGED <<files, file_i, fstep, extracted_docs, inserted_at, zip_images,
                   zip_img_i, tmp_zip, temp_extract_dir, collection_id,
                   failed_files, http_error>>
    /\ UNCHANGED <<text_vars, single_vars, figure_vars>>

\* a finally block that removes the extraction directory only
CleanupLeavesZip ==
    /\ zpc = "cleanup"
    /\ temp_extract_dir' = FALSE
    /\ zpc' = IF http_error = "none" THEN "returned" ELSE "raised"
    /\ UNCHANGED <<files, file_i, fstep, extracted_docs, inserted_at, zip_images,
                   zip_img_i, tmp_zip, collection_id, failed_files, http_error>>
    /\ UNCHANGED <<text_vars, single_vars, figure_vars>>

\* lines 344-354: finally: rmtree and os.remove, then return or re-raise
Cleanup ==
    /\ zpc = "cleanup"
    /\ temp_extract_dir' = FALSE
    /\ tmp_zip' = FALSE
    /\ zpc' = IF http_error = "none" THEN "returned" ELSE "raised"
    /\ UNCHANGED <<files, file_i, fstep, extracted_docs, inserted_at, zip_images,
                   zip_img_i, collection_id, failed_files, http_error>>
    /\ UNCHANGED <<text_vars, single_vars, figure_vars>>

NextZip ==
    \/ DownloadZip
    \/ ReuploadZip
    \/ SaveTempZip
    \/ InsertCollection
    \/ MakeTempDir
    \/ ExtractAll
    \/ WalkNext
    \/ ReadFile
    \/ UploadFile
    \/ InsertDocument
    \/ ExtractTextOfFile
    \/ ChunkTextOfFile
    \/ ExtractImagesOfFile
    \/ WriteLocal
    \/ UploadParsed
    \/ UploadImage
    \/ MarkParsed
    \/ WalkDone
    \/ Cleanup

SpecZip == InitZip /\ [][NextZip]_vars

----------------------------------------------------------------------------
(* Properties of the ZIP branch                                            *)

FailedFileIndexes == {f[1] : f \in failed_files}

HasEntry(kind, i) ==
    \E k \in 1..Len(extracted_docs) :
        extracted_docs[k].entry = kind /\ extracted_docs[k].file = i

\* C9: a step that fails while one file of the archive is processed does not
\* abort the others: no exception leaves the walk, and the handler returns
\* "ok" with an error entry for every file that failed and a document entry
\* for every other file that is not a nested zip (parsed when it is a PDF).
C9_FileFailureDoesNotAbortSiblings ==
    /\ (failed_files # {}) => zpc # "raised"
    /\ zpc = "returned" =>
          /\ http_error = "none"
          /\ \A i \in 1..Len(files) :
                /\ i \in FailedFileIndexes => HasEntry("error", i)
                /\ (i \notin FailedFileIndexes /\ files[i] # "zip") =>
                      \E k \in 1..Len(extracted_docs) :
                          /\ extracted_docs[k].entry = "document"
                          /\ extracted_docs[k].file = i
                          /\ extracted_docs[k].status =
                                IF files[i] = "pdf" THEN "parsed" ELSE "extracted"

\* a file failed and a later file was parsed, and the handler returned
C9_Witness ==
    /\ zpc = "returned"
    /\ \E i \in FailedFileIndexes :
          \E k \in 1..Len(extracted_docs) :
              /\ extracted_docs[k].entry = "document"
              /\ extracted_docs[k].file > i
              /\ extracted_docs[k].status = "parsed"

\* the steps on a PDF that follow the insertion of its record
ParseSteps == {"extract_text", "chunk", "extract_images", "local",
               "upload_parsed", "upload_images"}

\* C14: an entry of the documents list has status "parsed" only if it is the
\* record of a PDF none of whose steps failed and whose steps are all done,
\* and then it carries parsed_json and images; a file one of whose steps
\* failed after the insertion of its record has that record with status
\* "extracted", without parsed_json and images, followed by an error entry
\* for the same file.
C14_ParsedOnlyWhenAllStepsSucceeded ==
    /\ \A k \in 1..Len(extracted_docs) :
          (extracted_docs[k].entry = "document"
              /\ extracted_docs[k].status = "parsed") =>
             /\ files[extracted_docs[k].file] = "pdf"
             /\ extracted_docs[k].file \notin FailedFileIndexes
             /\ extracted_docs[k].file < file_i
             /\ extracted_docs[k].parsed_json
             /\ extracted_docs[k].images
    /\ \A f \in failed_files :
          f[2] \in ParseSteps =>
             \E k \in 1..Len(extracted_docs), e \in 1..Len(extracted_docs) :
                 /\ k < e
                 /\ extracted_docs[k].entry = "document"
                 /\ extracted_docs[k].file = f[1]
                 /\ extracted_docs[k].status = "extracted"
                 /\ ~extracted_docs[k].parsed_json
                 /\ ~extracted_docs[k].images
                 /\ extracted_docs[e].entry = "error"
                 /\ extracted_docs[e].file = f[1]

\* the handler returned; the upload of an image of one PDF failed after its
\* record was inserted, and another PDF was parsed
C14_Witness ==
    /\ zpc = "returned"
    /\ \E f \in failed_files : f[2] = "upload_images"
    /\ \E k \in 1..Len(extracted_docs) :
          /\ extracted_docs[k].entry = "document"
          /\ extracted_docs[k].status = "parsed"

\* the handler has returned or raised
ZipFinished == {"returned", "raised"}

----------------------------------------------------------------------------
(* The single-file branch of upload_callback (lines 357-498) and           *)
(* extract_images_with_metadata (lines 52-86)                              *)

ImageKinds == {"ok", "empty", "unreadable"}

\* the page of each image of a document, pages ascending
PageLists ==
    {pg \in UNION {[1..n -> 1..MaxPages] : n \in 0..MaxImages} :
        \A k \in 1..(Len(pg) - 1) : pg[k] <= pg[k + 1]}

\* the raw images of a document as page.get_images yields them, page after
\* page, img_index counting from 0 within each page
Docs ==
    {[k \in 1..Len(pg) |->
        [page        |-> pg[k],
         image_index |-> Cardinality({j \in 1..(k - 1) : pg[j] = pg[k]}),
         kind        |-> kd[k]]] :
     <<pg, kd>> \in {x \in PageLists \X UNION {[1..n -> ImageKinds] : n \in 0..MaxImages} :
                        Len(x[1]) = Len(x[2])}}

\* data.filename without the ".pdf" suffix: the stem of tmp_file_path
FileNames == {"a", "b"}

\* tmp_dir / safe_filename
InputPath(p) == <<"input", req_name[p]>>

\* f"{Path(pdf_path).stem}_p{page_num+1}_img{img_index}.{image_ext}"
ImageFileName(stem, page, img_index) == <<"image", stem, page, img_index>>

Exists(dir, name) == \E f \in dir : f[1] = name

ContentOf(dir, name) == (CHOOSE f \in dir : f[1] = name)[2]

WriteFile(dir, name, content) == {f \in dir : f[1] # name} \cup {<<name, content>>}

RemoveFile(dir, name) == {f \in dir : f[1] # name}

InitSingle ==
    /\ hpc = [p \in Procs |-> IF p = 1 THEN "download" ELSE "idle"]
    /\ \E n \in FileNames : req_name = [p \in Procs |-> IF p = 1 THEN n ELSE "none"]
    /\ \E d \in Docs : doc = [p \in Procs |-> IF p = 1 THEN d ELSE <<>>]
    /\ tmpdir = {}
    /\ text_src = [p \in Procs |-> 0]
    /\ image_src = [p \in Procs |-> 0]
    /\ ext_i = [p \in Procs |-> 0]
    /\ extracted_images_meta = [p \in Procs |-> <<>>]
    /\ mv_i = [p \in Procs |-> 0]
    /\ images_meta = [p \in Procs |-> <<>>]
    /\ local_dir = [p \in Procs |-> {}]
    /\ up_i = [p \in Procs |-> 0]
    /\ uploaded_images_meta = [p \in Procs |-> <<>>]
    /\ raised_by = [p \in Procs |-> "none"]
    /\ TextIdle
    /\ ZipIdle
    /\ FiguresIdle

\* an exception that no handler of the branch catches, or one that is
\* re-raised as HTTPException, ends the request
Raise(p, step) ==
    /\ hpc' = [hpc EXCEPT ![p] = "raised"]
    /\ raised_by' = [raised_by EXCEPT ![p] = step]

\* lines 383-389: the except block of the parse steps: unlink the temp file
\* and raise HTTPException "Error parsing file"
ParseFailed(p, step) ==
    /\ tmpdir' = RemoveFile(tmpdir, InputPath(p))
    /\ Raise(p, step)

\* lines 359-363
Download(p) ==
    /\ hpc[p] = "download"
    /\ \/ hpc' = [hpc EXCEPT ![p] = "write_tmp"] /\ UNCHANGED raised_by
       \/ Raise(p, "download")
    /\ UNCHANGED <<req_name, doc, tmpdir, text_src, image_src, ext_i,
                   extracted_images_meta, mv_i, images_meta, local_dir, up_i,
                   uploaded_images_meta>>
    /\ UNCHANGED <<text_vars, zip_vars, figure_vars>>

\* lines 366-373: the bytes are written to tmp_dir / safe_filename
WriteTemp(p) ==
    /\ hpc[p] = "write_tmp"
    /\ \/ /\ tmpdir' = WriteFile(tmpdir, InputPath(p), <<"pdf", p>>)
          /\ hpc' = [hpc EXCEPT ![p] = "extract_text"]
          /\ UNCHANGED raised_by
       \/ /\ Raise(p, "write_tmp")
          /\ UNCHANGED tmpdir
    /\ UNCHANGED <<req_name, doc, text_src, image_src, ext_i,
                   extracted_images_meta, mv_i, images_meta, local_dir, up_i,
                   uploaded_images_meta>>
    /\ UNCHANGED <<text_vars, zip_vars, figure_vars>>

\* lines 377-380: extract_text reads the file at tmp_file_path
ExtractText(p) ==
    /\ hpc[p] = "extract_text"
    /\ \/ /\ Exists(tmpdir, InputPath(p))
          /\ text_src' = [text_src EXCEPT ![p] = ContentOf(tmpdir, InputPath(p))[2]]
          /\ hpc' = [hpc EXCEPT ![p] = "chunk"]
          /\ UNCHANGED <<tmpdir, raised_by>>
       \/ /\ ParseFailed(p, "extract_text")
          /\ UNCHANGED text_src
    /\ UNCHANGED <<req_name, doc, image_src, ext_i, extracted_images_meta, mv_i,
                   images_meta, local_dir, up_i, uploaded_images_meta>>
    /\ UNCHANGED <<text_vars, zip_vars, figure_vars>>

\* line 381: chunk_text in a thread
ChunkText(p) ==
    /\ hpc[p] = "chunk"
    /\ \/ /\ hpc' = [hpc EXCEPT ![p] = "open_images"]
          /\ UNCHANGED <<tmpdir, raised_by>>
       \/ ParseFailed(p, "chunk")
    /\ UNCHANGED <<req_name, doc, text_src, image_src, ext_i,
                   extracted_images_meta, mv_i, images_meta, local_dir, up_i,
                   uploaded_images_meta>>
    /\ UNCHANGED <<text_vars, zip_vars, figure_vars>>

\* lines 66-67: fitz.open(pdf_path), saved = []
OpenImages(p) ==
    /\ hpc[p] = "open_images"
    /\ \/ /\ Exists(tmpdir, InputPath(p))
          /\ image_src' = [image_src EXCEPT ![p] = ContentOf(tmpdir, InputPath(p))[2]]
          /\ hpc' = [hpc EXCEPT ![p] = "extract_images"]
          /\ UNCHANGED <<tmpdir, raised_by>>
       \/ /\ ParseFailed(p, "open_images")
          /\ UNCHANGED image_src
    /\ UNCHANGED <<req_name, doc, text_src, ext_i, extracted_images_meta, mv_i,
                   images_meta, local_dir, up_i, uploaded_images_meta>>
    /\ UNCHANGED <<text_vars, zip_vars, figure_vars>>

\* lines 70-84, the body of the loops over pages and images: extract_image,
\* the file name, the file written, the entry appended. An exception of
\* extract_image or of base_image["image"] leaves the function and reaches
\* the except block of the handler. What extract_image does with an empty
\* byte buffer is the library's: it raises, or it returns the empty bytes,
\* which are written and recorded like any other.
ExtractOne(p, k, img) ==
    \/ /\ img.kind \in {"ok", "empty"}
       /\ tmpdir' = WriteFile(tmpdir,
                       ImageFileName(req_name[p], img.page, img.image_index),
                       <<"image", image_src[p], k>>)
       /\ extracted_images_meta' =
             [extracted_images_meta EXCEPT ![p] =
                 Append(@, [page |-> img.page, image_index |-> img.image_index,
                            filename |-> ImageFileName(req_name[p], img.page,
                                                       img.image_index)])]
       /\ ext_i' = [ext_i EXCEPT ![p] = k]
       /\ UNCHANGED <<hpc, raised_by>>
    \/ /\ img.kind \in {"unreadable", "empty"}
       /\ ParseFailed(p, "extract_image")
       /\ UNCHANGED <<extracted_images_meta, ext_i>>

\* one turn of the loops of lines 68-84
ExtractImage(p) ==
    /\ hpc[p] = "extract_images"
    /\ ext_i[p] < Len(doc[image_src[p]])
    /\ ExtractOne(p, ext_i[p] + 1, doc[image_src[p]][ext_i[p] + 1])
    /\ UNCHANGED <<req_name, doc, text_src, image_src, mv_i, images_meta,
                   local_dir, up_i, uploaded_images_meta>>
    /\ UNCHANGED <<text_vars, zip_vars, figure_vars>>

\* lines 85-86 and 392-407: doc.close(), return saved; the local folder and
\* parsed.json, outside every try block
Prepare(p) ==
    /\ hpc[p] = "extract_images"
    /\ ext_i[p] = Len(doc[image_src[p]])
    /\ \/ hpc' = [hpc EXCEPT ![p] = "move_images"] /\ UNCHANGED raised_by
       \/ Raise(p, "prepare")
    /\ UNCHANGED <<req_name, doc, tmpdir, text_src, image_src, ext_i,
                   extracted_images_meta, mv_i, images_meta, local_dir, up_i,
                   uploaded_images_meta>>
    /\ UNCHANGED <<text_vars, zip_vars, figure_vars>>

\* a move loop that puts each kept image in front of the list
MoveImageNewestFirst(p) ==
    /\ hpc[p] = "move_images"
    /\ mv_i[p] < Len(extracted_images_meta[p])
    /\ LET img == extracted_images_meta[p][mv_i[p] + 1]
       IN  IF Exists(tmpdir, img.filename)
           THEN /\ tmpdir' = RemoveFile(tmpdir, img.filename)
                /\ local_dir' = [local_dir EXCEPT ![p] =
                       WriteFile(@, img.filename, ContentOf(tmpdir, img.filename))]
                /\ images_meta' = [images_meta EXCEPT ![p] = <<img>> \o @]
           ELSE UNCHANGED <<tmpdir, local_dir, images_meta>>
    /\ mv_i' = [mv_i EXCEPT ![p] = @ + 1]
    /\ UNCHANGED <<hpc, req_name, doc, text_src, image_src, ext_i,
                   extracted_images_meta, up_i, uploaded_images_meta, raised_by>>
    /\ UNCHANGED <<text_vars, zip_vars, figure_vars>>

\* lines 411-424, one turn: a file that is no longer there is skipped, the
\* others are moved into the local folder and listed in images_meta
MoveImage(p) ==
    /\ hpc[p] = "move_images"
    /\ mv_i[p] < Len(extracted_images_meta[p])
    /\ LET img == extracted_images_meta[p][mv_i[p] + 1]
       IN  IF Exists(tmpdir, img.filename)
           THEN /\ tmpdir' = RemoveFile(tmpdir, img.filename)
                /\ local_dir' = [local_dir EXCEPT ![p] =
                       WriteFile(@, img.filename, ContentOf(tmpdir, img.filename))]
                /\ images_meta' = [images_meta EXCEPT ![p] = Append(@, img)]
           ELSE UNCHANGED <<tmpdir, local_dir, images_meta>>
    /\ mv_i' = [mv_i EXCEPT ![p] = @ + 1]
    /\ UNCHANGED <<hpc, req_name, doc, text_src, image_src, ext_i,
                   extracted_images_meta, up_i, uploaded_images_meta, raised_by>>
    /\ UNCHANGED <<text_vars, zip_vars, figure_vars>>

\* lines 426-436: images.json is written, parsed.json is uploaded; a failed
\* upload only sets parsed_remote_name to None
UploadParsedJson(p) ==
    /\ hpc[p] = "move_images"
    /\ mv_i[p] = Len(extracted_images_meta[p])
    /\ hpc' = [hpc EXCEPT ![p] = "upload_images"]
    /\ UNCHANGED <<req_name, doc, tmpdir, text_src, image_src, ext_i,
                   extracted_images_meta, mv_i, images_meta, local_dir, up_i,
                   uploaded_images_meta, raised_by>>
    /\ UNCHANGED <<text_vars, zip_vars, figure_vars>>

\* lines 440-467, one turn: the image is uploaded and listed with its remote
\* path, or the upload fails and it is listed with the error
UploadImageOfRequest(p) ==
    /\ hpc[p] = "upload_images"
    /\ up_i[p] < Len(images_meta[p])
    /\ LET img == images_meta[p][up_i[p] + 1]
       IN  \E ok \in BOOLEAN :
             uploaded_images_meta' =
                 [uploaded_images_meta EXCEPT ![p] =
                     Append(@, [page |-> img.page, image_index |-> img.image_index,
                                filename |-> img.filename,
                                remote_path |-> ok, error |-> ~ok])]
    /\ up_i' = [up_i EXCEPT ![p] = @ + 1]
    /\ UNCHANGED <<hpc, req_name, doc, tmpdir, text_src, image_src, ext_i,
                   extracted_images_meta, mv_i, images_meta, local_dir, raised_by>>
    /\ UNCHANGED <<text_vars, zip_vars, figure_vars>>

\* lines 470-498: the record is inserted (a failure is noted in it), the temp
\* file is unlinked, the handler returns status "ok"
InsertAndReturn(p) ==
    /\ hpc[p] = "upload_images"
    /\ up_i[p] = Len(images_meta[p])
    /\ tmpdir' = RemoveFile(tmpdir, InputPath(p))
    /\ hpc' = [hpc EXCEPT ![p] = "returned"]
    /\ UNCHANGED <<req_name, doc, text_src, image_src, ext_i,
                   extracted_images_meta, mv_i, images_meta, local_dir, up_i,
                   uploaded_images_meta, raised_by>>
    /\ UNCHANGED <<text_vars, zip_vars, figure_vars>>

NextSingle ==
    \E p \in Procs :
        \/ Download(p)
        \/ WriteTemp(p)
        \/ ExtractText(p)
        \/ ChunkText(p)
        \/ OpenImages(p)
        \/ ExtractImage(p)
        \/ Prepare(p)
        \/ MoveImage(p)
        \/ UploadParsedJson(p)
        \/ UploadImageOfRequest(p)
        \/ InsertAndReturn(p)

SpecSingle == InitSingle /\ [][NextSingle]_vars

----------------------------------------------------------------------------
(* Two requests of the single-file branch handled at once. The handler is  *)
(* a coroutine that is suspended at each await, and its parse steps run in *)
(* worker threads (asyncio.to_thread), so the steps of two requests        *)
(* interleave; tempfile.gettempdir() is the same directory for both.       *)

\* documents whose images can all be extracted, with at most one image
ConcurrentDocs ==
    {d \in Docs : Len(d) <= 1 /\ \A k \in 1..Len(d) : d[k].kind = "ok"}

\* both requests have been received; their file names may be equal
InitConcurrent ==
    /\ hpc = [p \in Procs |-> "download"]
    /\ req_name \in [Procs -> FileNames]
    /\ doc \in [Procs -> ConcurrentDocs]
    /\ tmpdir = {}
    /\ text_src = [p \in Procs |-> 0]
    /\ image_src = [p \in Procs |-> 0]
    /\ ext_i = [p \in Procs |-> 0]
    /\ extracted_images_meta = [p \in Procs |-> <<>>]
    /\ mv_i = [p \in Procs |-> 0]
    /\ images_meta = [p \in Procs |-> <<>>]
    /\ local_dir = [p \in Procs |-> {}]
    /\ up_i = [p \in Procs |-> 0]
    /\ uploaded_images_meta = [p \in Procs |-> <<>>]
    /\ raised_by = [p \in Procs |-> "none"]
    /\ TextIdle
    /\ ZipIdle
    /\ FiguresIdle

SpecConcurrent == InitConcurrent /\ [][NextSingle]_vars

\* documents of at most three images that can all be extracted
ReadableDocs ==
    {d \in Docs : Len(d) <= 3 /\ \A k \in 1..Len(d) : d[k].kind = "ok"}

\* the same upload notified twice: two requests with the same file name and
\* the same document
InitResubmit ==
    /\ hpc = [p \in Procs |-> "download"]
    /\ \E n \in FileNames : req_name = [p \in Procs |-> n]
    /\ \E d \in ReadableDocs : doc = [p \in Procs |-> d]
    /\ tmpdir = {}
    /\ text_src = [p \in Procs |-> 0]
    /\ image_src = [p \in Procs |-> 0]
    /\ ext_i = [p \in Procs |-> 0]
    /\ extracted_images_meta = [p \in Procs |-> <<>>]
    /\ mv_i = [p \in Procs |-> 0]
    /\ images_meta = [p \in Procs |-> <<>>]
    /\ local_dir = [p \in Procs |-> {}]
    /\ up_i = [p \in Procs |-> 0]
    /\ uploaded_images_meta = [p \in Procs |-> <<>>]
    /\ raised_by = [p \in Procs |-> "none"]
    /\ TextIdle
    /\ ZipIdle
    /\ FiguresIdle

SpecResubmit == InitResubmit /\ [][NextSingle]_vars

----------------------------------------------------------------------------
(* parse_and_extract and extract_and_save_figures of parse_marker.py, for  *)
(* two requests on the same stored document                                *)

\* the blocks of a marker_json: their type, their page, whether they carry a
\* bbox
Blocks ==
    UNION {[1..n -> [type : {"figure", "text"}, page : 1..MaxPages, bbox : BOOLEAN]] :
              n \in 0..MaxBlocks}

\* the values uuid.uuid4() may return; no value is returned twice
Uuids == 1..(Cardinality(Procs) * MaxBlocks)

UsedUuids ==
    UNION {{saved[p][k].filename[3] : k \in 1..Len(saved[p])} : p \in Procs}

\* f"figure_p{page_num}_{uuid.uuid4().hex}.png"
FigureFileName(page_num, u) == <<"figure", page_num, u>>

InitFigures ==
    /\ blocks \in Blocks
    /\ mpc = [p \in Procs |-> "download"]
    /\ block_i = [p \in Procs |-> 0]
    /\ saved = [p \in Procs |-> <<>>]
    /\ TextIdle
    /\ ZipIdle
    /\ SingleIdle

\* lines 97-105: the bytes are downloaded and written to input.pdf in a
\* directory of the request's own (tempfile.mkdtemp)
DownloadPdf(p) ==
    /\ mpc[p] = "download"
    /\ \E next \in {"marker", "raised"} : mpc' = [mpc EXCEPT ![p] = next]
    /\ UNCHANGED <<blocks, block_i, saved>>
    /\ UNCHANGED <<text_vars, zip_vars, single_vars>>

\* lines 110 and 18-42: marker_single runs and its JSON is read; a failure
\* leaves _process through its finally block
RunMarker(p) ==
    /\ mpc[p] = "marker"
    /\ \E next \in {"figures", "raised"} : mpc' = [mpc EXCEPT ![p] = next]
    /\ UNCHANGED <<blocks, block_i, saved>>
    /\ UNCHANGED <<text_vars, zip_vars, single_vars>>

\* lines 53-72, one turn of the loop: a block that is no figure or has no
\* bbox is passed over, a figure is cropped, saved under a new name and
\* listed; get_pixmap or save may raise
SaveFigure(p) ==
    /\ mpc[p] = "figures"
    /\ block_i[p] < Len(blocks)
    /\ LET block == blocks[block_i[p] + 1]
       IN  IF block.type = "figure" /\ block.bbox
           THEN \/ /\ \E u \in Uuids \ UsedUuids :
                         saved' = [saved EXCEPT ![p] =
                                      Append(@, [page     |-> block.page,
                                                 filename |-> FigureFileName(block.page, u)])]
                   /\ block_i' = [block_i EXCEPT ![p] = @ + 1]
                   /\ UNCHANGED mpc
                \/ /\ mpc' = [mpc EXCEPT ![p] = "raised"]
                   /\ UNCHANGED <<block_i, saved>>
           ELSE /\ block_i' = [block_i EXCEPT ![p] = @ + 1]
                /\ UNCHANGED <<mpc, saved>>
    /\ UNCHANGED blocks
    /\ UNCHANGED <<text_vars, zip_vars, single_vars>>

\* lines 73-74 and 112-140: the list is returned, the figures are uploaded
\* (a failed upload is noted), the record is inserted, the directory is
\* emptied and the handler returns
UploadFigures(p) ==
    /\ mpc[p] = "figures"
    /\ block_i[p] = Len(blocks)
    /\ mpc' = [mpc EXCEPT ![p] = "returned"]
    /\ UNCHANGED <<blocks, block_i, saved>>
    /\ UNCHANGED <<text_vars, zip_vars, single_vars>>

NextFigures ==
    \E p \in Procs :
        \/ DownloadPdf(p)
        \/ RunMarker(p)
        \/ SaveFigure(p)
        \/ UploadFigures(p)

SpecFigures == InitFigures /\ [][NextFigures]_vars

----------------------------------------------------------------------------
(* Properties of the image extraction                                      *)

\* C10: an image that cannot be extracted does not abort its document: the
\* handler is never ended by extract_image, and when it returns the image
\* list has one entry per raw image, in order, the entry of each image that
\* was not extracted carrying an error note.
C10_BadImageRecordedDegraded ==
    \A p \in Procs :
        /\ raised_by[p] # "extract_image"
        /\ hpc[p] = "returned" =>
              /\ Len(uploaded_images_meta[p]) = Len(doc[p])
              /\ \A k \in 1..Len(uploaded_images_meta[p]) :
                    /\ uploaded_images_meta[p][k].page = doc[p][k].page
                    /\ uploaded_images_meta[p][k].image_index = doc[p][k].image_index
                    /\ doc[p][k].kind # "ok" => uploaded_images_meta[p][k].error

\* the image list request p builds from its own document when no other
\* request touches its files
SoloImages(p) ==
    [k \in 1..Len(doc[p]) |->
        [page        |-> doc[p][k].page,
         image_index |-> doc[p][k].image_index,
         filename    |-> ImageFileName(req_name[p], doc[p][k].page,
                                       doc[p][k].image_index)]]

\* C11: two requests handled at once do not touch each other's data: each
\* parses the bytes of its own document, its local folder holds images of
\* its own document only, and when it returns its image list is the one it
\* builds when handled alone - also when both carry the same file name.
C11_ConcurrentRequestsIsolated ==
    \A p \in Procs :
        /\ text_src[p] \in {0, p}
        /\ image_src[p] \in {0, p}
        /\ \A f \in local_dir[p] : f[2][2] = p
        /\ hpc[p] = "returned" => images_meta[p] = SoloImages(p)

\* page ascending, then image index ascending within a page
Ascending(list) ==
    \A i, j \in 1..Len(list) :
        i < j => \/ list[i].page < list[j].page
                 \/ /\ list[i].page = list[j].page
                    /\ list[i].image_index < list[j].image_index

\* C12: the images of a document are listed in input order, page ascending
\* and image index ascending within a page, in the list the extraction
\* returns, in the manifest built from it by the move loop and in the list
\* of uploaded images, whichever of the images the move loop keeps.
C12_ImagesInInputOrder ==
    \A p \in Procs :
        /\ Ascending(extracted_images_meta[p])
        /\ Ascending(images_meta[p])
        /\ Ascending(uploaded_images_meta[p])

\* a request has returned with two of its three extracted images kept, the
\* third one taken by the other request
C12_Witness ==
    \E p \in Procs :
        /\ hpc[p] = "returned"
        /\ Len(extracted_images_meta[p]) = 3
        /\ Len(images_meta[p]) = 2
        /\ Len(uploaded_images_meta[p]) = 2

\* C13: image file names are deterministic and unique within a document:
\* two requests on the same document give the same name to the same image,
\* and no two images listed by a request have the same name.
C13_NamesDeterministicAndUnique ==
    /\ \A p, q \in Procs :
          \A k \in 1..Min({Len(saved[p]), Len(saved[q])}) :
              saved[p][k].filename = saved[q][k].filename
    /\ \A p \in Procs :
          \A i, j \in 1..Len(saved[p]) :
              i # j => saved[p][i].filename # saved[p][j].filename

----------------------------------------------------------------------------
(* Properties of the text normalization                                    *)

NoTripleNewline(text) ==
    \A i \in 1..(Len(text) - 2) :
        ~(text[i] = "\n" /\ text[i + 1] = "\n" /\ text[i + 2] = "\n")

\* C1: normalization is idempotent: a text that went through
\* dehyphenate_text and reflow_paragraphs a second time is the text the
\* first pass produced.
C1_NormalizeIdempotent ==
    (pc = "reflowed" /\ passes >= 2) => text_content = first_pass

\* C2: the normalized text holds no run of three or more newlines.
C2_NoRunOfThreeNewlines ==
    pc = "reflowed" => NoTripleNewline(text_content)

\* text[i] is a word character followed by a hyphen, a newline and a
\* lowercase letter
WrappedAt(text, i) ==
    /\ i + 3 <= Len(text)
    /\ text[i] \in WordChar
    /\ text[i + 1] = "-"
    /\ text[i + 2] = "\n"
    /\ text[i + 3] \in Lower

\* text without the two characters after position i
WithoutWrap(text, i) == SubSeq(text, 1, i) \o Drop(text, i + 2)

\* C7: every word character, hyphen, newline, lowercase letter of the input
\* is joined: dehyphenation, and the whole normalization, give what they give
\* for the input with that hyphen and newline deleted; the text
\* "multi-\nple para-\ngraphs here.\n\n\nNext one." is normalized to
\* "multiple paragraphs here.\n\nNext one.".
C7_WrappedWordsJoined ==
    /\ (pc = "dehyphenated" /\ passes = 1) =>
          \A i \in 1..Len(raw) :
              WrappedAt(raw, i) =>
                  text_content = dehyphenate_text(WithoutWrap(raw, i))
    /\ (pc = "reflowed" /\ passes = 1) =>
          /\ \A i \in 1..Len(raw) :
                WrappedAt(raw, i) =>
                    text_content =
                        reflow_paragraphs(dehyphenate_text(WithoutWrap(raw, i)))
          /\ raw = HyphenatedText => text_content = HyphenatedTextJoined

C7_Witness ==
    /\ pc = "reflowed"
    /\ passes = 1
    /\ raw = HyphenatedText
    /\ text_content = HyphenatedTextJoined

\* text[i] is a word character followed by a hyphen, a CRLF line ending and a
\* lowercase letter
CrlfWrappedAt(text, i) ==
    /\ i + 4 <= Len(text)
    /\ text[i] \in WordChar
    /\ text[i + 1] = "-"
    /\ text[i + 2] = "\r"
    /\ text[i + 3] = "\n"
    /\ text[i + 4] \in Lower

\* C8: line endings are unified before dehyphenation: a text with a
\* hyphenated word wrapped by a CRLF line ending is normalized to what its LF
\* form is normalized to, "multi-\r\nple" to "multiple".
C8_CrlfWrapJoinedLikeLf ==
    (pc = "reflowed" /\ passes = 1) =>
        /\ (\E i \in 1..Len(raw) : CrlfWrappedAt(raw, i)) =>
              text_content = reflow_paragraphs(dehyphenate_text(UnifyCRLF(raw)))
        /\ raw = CrlfWrappedWord => text_content = WrappedWordJoined

----------------------------------------------------------------------------
(* Properties of the chunker                                               *)

\* the concatenation of a sequence of texts
RECURSIVE Flatten(_)
Flatten(parts) ==
    IF parts = <<>> THEN <<>>
    ELSE IF Len(parts) = 1 THEN parts[1]
    ELSE LET h == Len(parts) \div 2
         IN  Flatten(SubSeq(parts, 1, h)) \o Flatten(Drop(parts, h))

\* a non-empty text with no white space in it: no separator to split at
Atomic(text) ==
    text # <<>> /\ \A i \in 1..Len(text) : text[i] \notin Whitespace

\* C3: every chunk is at most chunk_size characters long.
C3_ChunkSizeBound ==
    pc = "chunked" =>
        \A k \in 1..Len(text_chunks) : Len(text_chunks[k]) <= chunk_size

C3_Witness ==
    /\ pc = "chunked"
    /\ Len(text_content) > chunk_size
    /\ Len(text_chunks) >= 2
    /\ \E k \in 1..Len(text_chunks) : Len(text_chunks[k]) = chunk_size

\* C4: the chunks, joined in the order they were emitted, are the text: no
\* character is dropped, duplicated or moved, and no chunk is empty.
C4_ChunksReassemble ==
    pc = "chunked" =>
        /\ Flatten(text_chunks) = text_content
        /\ \A k \in 1..Len(text_chunks) : text_chunks[k] # <<>>

C4_Witness ==
    /\ pc = "chunked"
    /\ Len(text_chunks) >= 3
    /\ \E i \in 1..Len(text_content) : text_content[i] = "\n"
    /\ Flatten(text_chunks) = text_content

====
